---- MODULE Spec2Model ----
(***************************************************************************)
(* A model of napalm_comware/comware.py: the ComwareDriver of the NAPALM   *)
(* driver for H3C Comware V7 devices.                                      *)
(*                                                                         *)
(* The driver owns one netmiko connection handle (self.device).  Every     *)
(* query operation sends fixed commands through it, has the text parsed    *)
(* into records by textfsm, and maps the records to a canonical result.   *)
(* In the model one call of an operation is one action: it draws the       *)
(* device's answers (the responses, or the records textfsm extracts from   *)
(* them) from bounded sets, and leaves the call's arguments, the commands  *)
(* it sent, the exception it raised and the value it returned in the       *)
(* state.  Return hands control back to the caller.                        *)
(*                                                                         *)
(* Text the code inspects character by character (names, serial numbers,   *)
(* MAC addresses, numbers to convert) is a sequence of one-character       *)
(* strings; text the code only passes along (commands, raw responses) is   *)
(* a string.                                                               *)
(***************************************************************************)
EXTENDS Integers, Sequences, FiniteSets, TLC

VARIABLES device, pc, op, args, sent, exc, result

vars == <<device, pc, op, args, sent, exc, result>>

-----------------------------------------------------------------------------
(* Bounds of the model. *)

\* Longest command list given to cli.
MaxCmds == 2

\* Most records textfsm extracts from one response (tables other than the
\* slot table of "display device manuinfo").
MaxRecs == 2

\* Most slot records extracted from "display device manuinfo".
MaxSlots == 3

-----------------------------------------------------------------------------
(* Python values. *)

\* Python's None.  Every value the code compares with None or with a text is
\* a sequence of strings in the model, and no text is this sequence.
None == <<"None">>

\* The connection handle _netmiko_open returns.
Conn == <<"HPComwareBase">>

\* Sequences over S of length at most n.
SeqUpTo(S, n) == UNION {[1..k -> S] : k \in 0..n}

Range(s) == {s[i] : i \in DOMAIN s}

\* The outcome of a call: the exception raised ("none" when it returned),
\* the value returned, and the commands sent to the device, in order.
Returned(v, s) == [exc |-> "none", value |-> v, sent |-> s]

Raised(e, s) == [exc |-> e, value |-> None, sent |-> s]

\* dict.get(key): None for a key the dict does not have.
Get(d, key) == IF key \in DOMAIN d THEN d[key] ELSE None

\* float(x): a float is kept apart from the int of the same value.
float(x) == [float |-> x]

UpperChars == <<"A","B","C","D","E","F","G","H","I","J","K","L","M",
                "N","O","P","Q","R","S","T","U","V","W","X","Y","Z">>

LowerChars == <<"a","b","c","d","e","f","g","h","i","j","k","l","m",
                "n","o","p","q","r","s","t","u","v","w","x","y","z">>

LowerChar(c) ==
    IF \E i \in DOMAIN UpperChars : UpperChars[i] = c
    THEN LowerChars[CHOOSE i \in DOMAIN UpperChars : UpperChars[i] = c]
    ELSE c

\* str.lower()
Lower(s) == [i \in DOMAIN s |-> LowerChar(s[i])]

\* sub in s
Contains(s, sub) ==
    \E i \in 0..(Len(s) - Len(sub)) : SubSeq(s, i + 1, i + Len(sub)) = sub

Digits == <<"0","1","2","3","4","5","6","7","8","9">>

DigitValue(c) == (CHOOSE i \in DOMAIN Digits : Digits[i] = c) - 1

\* int(s) of a decimal text.
RECURSIVE int(_)
int(s) ==
    IF Len(s) = 0 THEN 0
    ELSE 10 * int(SubSeq(s, 1, Len(s) - 1)) + DigitValue(s[Len(s)])

\* sep.join(parts)
RECURSIVE join(_, _)
join(sep, parts) ==
    IF Len(parts) = 0 THEN <<>>
    ELSE IF Len(parts) = 1 THEN parts[1]
    ELSE parts[1] \o sep \o join(sep, Tail(parts))

-----------------------------------------------------------------------------
(* The session: __init__, open, close, send_command, is_alive. *)

\* Raw text a device answers a command with.
Responses == {"text-a", "text-b"}

\* send_command: self.device.send_command(command).  With self.device None
\* the attribute lookup on None raises AttributeError.
send_command(dev, command, response) ==
    IF dev = None
    THEN Raised("AttributeError", <<>>)
    ELSE Returned(response, <<command>>)

\* is_alive: False without a handle, else what the handle reports.
is_alive(dev, handle_alive) ==
    IF dev = None
    THEN Returned([is_alive |-> FALSE], <<>>)
    ELSE Returned([is_alive |-> handle_alive], <<>>)

-----------------------------------------------------------------------------
(* cli *)

\* Commands a caller passes.
Commands == {"show x", "display clock"}

\* What a caller may pass as `commands`: a list of commands, or a value of
\* another type (a single command string, a tuple of commands).
CliInputs ==
    {[type |-> "list", value |-> c] : c \in SeqUpTo(Commands, MaxCmds)}
        \cup {[type |-> "str", value |-> <<c>>] : c \in Commands}
        \cup {[type |-> "tuple", value |-> <<c>>] : c \in Commands}

\* The for loop of cli from the i-th command on; responses[i] is the
\* device's answer to the i-th send.
RECURSIVE cli_loop(_, _, _, _, _)
cli_loop(dev, commands, responses, i, cli_output) ==
    IF i > Len(commands)
    THEN Returned(cli_output, commands)
    ELSE IF dev = None
         THEN Raised("AttributeError", SubSeq(commands, 1, i - 1))
         ELSE cli_loop(dev, commands, responses, i + 1,
                       (commands[i] :> responses[i]) @@ cli_output)

\* cli without the check of the type of `commands`.
cli_unchecked(dev, commands, responses) ==
    cli_loop(dev, commands.value, responses, 1, <<>>)

\* The exception cli raises for an argument that is no list; the driver's
\* invalid-argument error.
InvalidArgumentError == "TypeError"

cli(dev, commands, responses) ==
    IF commands.type # "list"
    THEN Raised(InvalidArgumentError, <<>>)
    ELSE cli_loop(dev, commands.value, responses, 1, <<>>)

-----------------------------------------------------------------------------
(* get_config *)

running == <<"r","u","n","n","i","n","g">>

startup == <<"s","t","a","r","t","u","p">>

all == <<"a","l","l">>

candidate == <<"c","a","n","d","i","d","a","t","e">>

\* Values of `retrieve` a caller passes.
Retrieves ==
    {running, startup, all, candidate,
     <<"A","L","L">>, <<"R","u","n","n","i","n","g">>}

CmdRunning == "display current-configuration"

CmdSaved == "display saved-configuration"

\* get_config fetching nothing of the running configuration when
\* `sanitized` is set.
get_config_sanitizing(dev, retrieve, full, sanitized, response_running, response_saved) ==
    LET want_running == Lower(retrieve) \in {running, all} /\ ~sanitized
        r1 == IF want_running
              THEN send_command(dev, CmdRunning, response_running)
              ELSE Returned("", <<>>)
        r2 == IF Lower(retrieve) \in {startup, all}
              THEN send_command(dev, CmdSaved, response_saved)
              ELSE Returned("", <<>>)
    IN  IF r1.exc # "none" THEN r1
        ELSE IF r2.exc # "none" THEN Raised(r2.exc, r1.sent \o r2.sent)
        ELSE Returned([startup |-> r2.value, running |-> r1.value,
                       candidate |-> ""], r1.sent \o r2.sent)

\* get_config; response_running and response_saved are the device's answers
\* to the two commands, should they be sent.
get_config(dev, retrieve, full, sanitized, response_running, response_saved) ==
    LET configs0 == [startup |-> "", running |-> "", candidate |-> ""]
        r1 == IF Lower(retrieve) \in {running, all}
              THEN send_command(dev, CmdRunning, response_running)
              ELSE Returned("", <<>>)
        configs1 == IF Lower(retrieve) \in {running, all}
                    THEN [configs0 EXCEPT !.running = r1.value]
                    ELSE configs0
        r2 == IF Lower(retrieve) \in {startup, all}
              THEN send_command(dev, CmdSaved, response_saved)
              ELSE Returned("", <<>>)
        configs2 == IF Lower(retrieve) \in {startup, all}
                    THEN [configs1 EXCEPT !.startup = r2.value]
                    ELSE configs1
    IN  IF r1.exc # "none" THEN r1
        ELSE IF r2.exc # "none" THEN Raised(r2.exc, r1.sent \o r2.sent)
        ELSE Returned(configs2, r1.sent \o r2.sent)

-----------------------------------------------------------------------------
(* __get_structured_output *)

\* __get_structured_output: sends the command and has textfsm_extractor parse
\* the response; records is what textfsm extracts, in order of appearance.
_get_structured_output(dev, command, records) ==
    IF dev = None
    THEN Raised("AttributeError", <<>>)
    ELSE Returned(records, <<command>>)

-----------------------------------------------------------------------------
(* get_vlans *)

VLAN_0002 == <<"V","L","A","N"," ","0","0","0","2">>

VLAN0002 == <<"V","L","A","N","0","0","0","2">>

Uplink == <<"U","p","l","i","n","k">>

\* The text "VLAN " the naming rule looks for.
VLAN_ == <<"V","L","A","N"," ">>

\* Records textfsm extracts from "display vlan all".
VlanRecords ==
    [vlan_id : {<<"2">>, <<"0","2">>, <<"1","0">>},
     name : {VLAN_0002, VLAN0002, Uplink},
     description : {VLAN_0002, Uplink},
     interfaces : {<<>>, <<"GigabitEthernet1/0/1">>}]

\* The naming rule that always keeps the name.
vlan_name_only(vlan_name, vlan_desc) == vlan_name

\* The naming rule with `or` for `and`.
vlan_name_either(vlan_name, vlan_desc) ==
    IF ~Contains(vlan_desc, VLAN_) \/ Contains(vlan_name, VLAN_)
    THEN vlan_desc
    ELSE vlan_name

\* The name get_vlans gives a VLAN.
vlan_name_of(vlan_name, vlan_desc) ==
    IF ~Contains(vlan_desc, VLAN_) /\ Contains(vlan_name, VLAN_)
    THEN vlan_desc
    ELSE vlan_name

\* The for loop of get_vlans from the i-th record on.
RECURSIVE get_vlans_loop(_, _, _)
get_vlans_loop(structured_output, i, vlans) ==
    IF i > Len(structured_output)
    THEN vlans
    ELSE LET vlan_entry == structured_output[i]
             vlan_name == Get(vlan_entry, "name")
             vlan_desc == Get(vlan_entry, "description")
         IN  get_vlans_loop(structured_output, i + 1,
                 (int(Get(vlan_entry, "vlan_id")) :>
                     [name |-> vlan_name_of(vlan_name, vlan_desc),
                      interfaces |-> Get(vlan_entry, "interfaces")])
                 @@ vlans)

get_vlans(dev, records) ==
    LET r == _get_structured_output(dev, "display vlan all", records)
    IN  IF r.exc # "none" THEN r
        ELSE Returned(get_vlans_loop(r.value, 1, <<>>), r.sent)

-----------------------------------------------------------------------------
(* get_irf_config, is_irf *)

irf_port == <<"i","r","f","-","p","o","r","t">>

\* Records textfsm extracts from
\* "display current-configuration configuration irf-port".
IrfRecords ==
    [member_id : {<<"1">>, <<"2">>},
     port_id : {<<"1">>, <<"2">>},
     port_member : {<<>>, <<"FortyGigE1/0/53">>}]

CmdIrf == "display current-configuration configuration irf-port"

\* irf_config[member][key] = value on a defaultdict(dict).
irf_assign(irf_config, member, key, value) ==
    LET inner == IF member \in DOMAIN irf_config THEN irf_config[member]
                 ELSE <<>>
    IN  (member :> ((key :> value) @@ inner)) @@ irf_config

\* The for loop of get_irf_config from the i-th record on.
RECURSIVE get_irf_config_loop(_, _, _)
get_irf_config_loop(structured_output, i, irf_config) ==
    IF i > Len(structured_output)
    THEN irf_config
    ELSE LET config == structured_output[i]
         IN  get_irf_config_loop(structured_output, i + 1,
                 irf_assign(irf_config, int(config.member_id),
                            irf_port \o config.port_id, config.port_member))

get_irf_config(dev, records) ==
    LET r == _get_structured_output(dev, CmdIrf, records)
    IN  IF r.exc # "none" THEN r
        ELSE Returned(get_irf_config_loop(r.value, 1, <<>>), r.sent)

\* is_irf testing `config is not None` instead of the truth value.
is_irf_not_none(dev, records) ==
    LET config == get_irf_config(dev, records)
    IN  IF config.exc # "none" THEN config
        ELSE Returned([is_irf |-> TRUE], config.sent)

\* is_irf: the truth value of the mapping get_irf_config returns.
is_irf(dev, records) ==
    LET config == get_irf_config(dev, records)
    IN  IF config.exc # "none" THEN config
        ELSE IF DOMAIN config.value # {}
             THEN Returned([is_irf |-> TRUE], config.sent)
             ELSE Returned([is_irf |-> FALSE], config.sent)

-----------------------------------------------------------------------------
(* Normalizers the driver imports. *)

IsHexSeparator(c) == c \in {"-", ":", "."}

UpperChar(c) ==
    IF \E i \in DOMAIN LowerChars : LowerChars[i] = c
    THEN UpperChars[CHOOSE i \in DOMAIN LowerChars : LowerChars[i] = c]
    ELSE c

\* The digits of a MAC address in pairs, joined by ":".
RECURSIVE mac_pairs(_)
mac_pairs(hex) ==
    IF Len(hex) <= 2 THEN hex
    ELSE SubSeq(hex, 1, 2) \o <<":">> \o mac_pairs(SubSeq(hex, 3, Len(hex)))

\* napalm.base.helpers.mac: the address as upper-case pairs of hex digits
\* joined by ":", whatever separators the device printed.
mac(raw) ==
    LET hex == SelectSeq(raw, LAMBDA c : ~IsHexSeparator(c))
    IN  mac_pairs([i \in DOMAIN hex |-> UpperChar(hex[i])])

IsLetter(c) ==
    \/ \E i \in DOMAIN LowerChars : LowerChars[i] = c
    \/ \E i \in DOMAIN UpperChars : UpperChars[i] = c

\* Length of the leading run of letters of a text.
RECURSIVE prefix_len(_)
prefix_len(name) ==
    IF Len(name) = 0 \/ ~IsLetter(name[1]) THEN 0
    ELSE 1 + prefix_len(Tail(name))

GigabitEthernet ==
    <<"G","i","g","a","b","i","t","E","t","h","e","r","n","e","t">>

\* canonical_interface_name_comware: the long form of an abbreviated
\* interface name; a name with an unknown prefix is returned unchanged.
canonical_interface_name_comware(name) ==
    LET n == prefix_len(name)
    IN  IF SubSeq(name, 1, n) = <<"G","E">>
        THEN GigabitEthernet \o SubSeq(name, n + 1, Len(name))
        ELSE name

\* strptime: a numeric value of a timestamp text that sorts as the
\* timestamps do.
strptime(text) ==
    int(SelectSeq(text, LAMBDA c : \E j \in DOMAIN Digits : Digits[j] = c))

UnitSeconds ==
    [weeks |-> 604800, days |-> 86400, hours |-> 3600, minutes |-> 60,
     seconds |-> 1]

\* parse_time: the seconds of an uptime text, given as its
\* <<number, unit>> parts.
RECURSIVE parse_time(_)
parse_time(parts) ==
    IF Len(parts) = 0 THEN 0
    ELSE int(parts[1][1]) * UnitSeconds[parts[1][2]] + parse_time(Tail(parts))

-----------------------------------------------------------------------------
(* get_mac_address_move_table, get_mac_address_table *)

GE1_0_1 == <<"G","E","1","/","0","/","1">>

BAGG1 == <<"B","A","G","G","1">>

MacA == <<"0","0","1","1","-","2","2","3","3","-","4","4","5","5">>

MacB == <<"a","a","b","b","-","c","c","d","d","-","e","e","f","f">>

Learned == <<"L","e","a","r","n","e","d">>

Static == <<"S","t","a","t","i","c">>

\* Records textfsm extracts from "display mac-address".
MacRecords ==
    [mac_address : {MacA, MacB},
     vlan : {<<"1","0">>},
     state : {Learned, Static},
     interface : {GE1_0_1}]

\* Records textfsm extracts from "display mac-address mac-move".
MacMoveRecords ==
    [mac_address : {MacA, MacB},
     vlan : {<<"1","0">>},
     current_port : {GE1_0_1},
     source_port : {BAGG1},
     last_move : {<<"1","0",":","1","5",":","2","0">>},
     times : {<<"1">>, <<"3">>}]

CmdMac == "display mac-address"

CmdMacMove == "display mac-address mac-move"

\* The entry get_mac_address_move_table makes of one record.
mac_move_entry_of(mac_move_entry) ==
    [mac |-> mac(mac_move_entry.mac_address),
     vlan |-> int(mac_move_entry.vlan),
     current_port |->
         canonical_interface_name_comware(mac_move_entry.current_port),
     source_port |->
         canonical_interface_name_comware(mac_move_entry.source_port),
     last_move |-> mac_move_entry.last_move,
     moves |-> int(mac_move_entry.times)]

get_mac_address_move_table(dev, records) ==
    LET r == _get_structured_output(dev, CmdMacMove, records)
    IN  IF r.exc # "none" THEN r
        ELSE Returned([i \in DOMAIN r.value |-> mac_move_entry_of(r.value[i])],
                      r.sent)

\* The for loop of _get_mac_move from the i-th entry on.  moves_is_none says
\* that `moves` holds None (the entry matched has no key "times").
RECURSIVE get_mac_move_loop(_, _, _, _)
get_mac_move_loop(mac_address, mac_address_move_table, i, acc) ==
    IF i > Len(mac_address_move_table)
    THEN acc
    ELSE LET mac_move == mac_address_move_table[i]
         IN  IF mac_address = Get(mac_move, "mac_address")
             THEN get_mac_move_loop(mac_address, mac_address_move_table, i + 1,
                      [last_move |-> strptime(Get(mac_move, "last_move")),
                       moves |-> IF "times" \in DOMAIN mac_move
                                 THEN mac_move["times"] ELSE 0,
                       moves_is_none |-> "times" \notin DOMAIN mac_move])
             ELSE get_mac_move_loop(mac_address, mac_address_move_table, i + 1,
                                    acc)

\* _get_mac_move with 0 for the defaults of last_move and moves.
get_mac_move_zero(mac_address, mac_address_move_table) ==
    Returned([last_move |-> float(0), moves |-> 0], <<>>)

\* _get_mac_move: the fields merged into a MAC entry; int(None) raises
\* TypeError.
_get_mac_move(mac_address, mac_address_move_table) ==
    LET acc == get_mac_move_loop(mac_address, mac_address_move_table, 1,
                   [last_move |-> -1, moves |-> -1, moves_is_none |-> FALSE])
    IN  IF acc.moves_is_none
        THEN Raised("TypeError", <<>>)
        ELSE Returned([last_move |-> float(acc.last_move),
                       moves |-> acc.moves], <<>>)

\* The entry get_mac_address_table makes of one record, before the merge.
mac_entry_of(mac_entry) ==
    [mac |-> mac(mac_entry.mac_address),
     interface |-> canonical_interface_name_comware(mac_entry.interface),
     vlan |-> int(mac_entry.vlan),
     static |-> Contains(Lower(mac_entry.state), <<"t","a","t","i","c">>),
     state |-> mac_entry.state,
     active |-> TRUE]

\* entry.update(...)
update(entry, fields) == fields @@ entry

\* The for loop of get_mac_address_table from the i-th record on.
RECURSIVE get_mac_address_table_loop(_, _, _, _, _)
get_mac_address_table_loop(structured_output, mac_address_move_table, i, mac_address_table, commands) ==
    IF i > Len(structured_output)
    THEN Returned(mac_address_table, commands)
    ELSE LET mac_entry == structured_output[i]
             move == _get_mac_move(mac_entry.mac_address,
                                   mac_address_move_table)
         IN  IF move.exc # "none"
             THEN Raised(move.exc, commands)
             ELSE get_mac_address_table_loop(
                      structured_output, mac_address_move_table, i + 1,
                      Append(mac_address_table,
                             update(mac_entry_of(mac_entry), move.value)),
                      commands)

get_mac_address_table(dev, records, move_records) ==
    LET r == _get_structured_output(dev, CmdMac, records)
        m == get_mac_address_move_table(dev, move_records)
    IN  IF r.exc # "none" THEN r
        ELSE IF m.exc # "none" THEN Raised(m.exc, r.sent \o m.sent)
        ELSE get_mac_address_table_loop(r.value, m.value, 1, <<>>,
                                        r.sent \o m.sent)

-----------------------------------------------------------------------------
(* get_facts *)

Unknown == <<"U","n","k","n","o","w","n">>

Comware == <<"C","o","m","w","a","r","e">>

Slot == <<"S","l","o","t">>

Power == <<"P","o","w","e","r">>

\* Records textfsm extracts from "display version".
SysInfoRecords ==
    [uptime : {<< <<<<"1">>, "weeks">>, <<<<"2">>, "days">>,
                  <<<<"0">>, "hours">>, <<<<"3","7">>, "minutes">> >>},
     vendor : {<<"H","3","C">>},
     model : {<<"S","5","5","6","0">>},
     os_version : {<<"7",".","1">>}]

\* Prompts find_prompt reads from the device.
Prompts == {<<"<","s","w","1",">">>}

\* Records textfsm extracts from "display interface", as far as get_facts
\* reads them.
InterfaceRecords == [interface : {GE1_0_1, BAGG1}]

\* Records textfsm extracts from "display device manuinfo".
SlotRecords ==
    [slot_type : {Slot, Power},
     serial_number : {<<>>, <<"A","1">>, <<"B","2">>}]

FactsCommands ==
    <<"display version", "display interface", "display device manuinfo">>

\* The serial numbers kept without the test for an empty serial number.
RECURSIVE kept_serials_with_empty(_)
kept_serials_with_empty(structured_sn) ==
    IF Len(structured_sn) = 0 THEN <<>>
    ELSE IF Get(structured_sn[1], "slot_type") = Slot
         THEN <<Get(structured_sn[1], "serial_number")>>
                  \o kept_serials_with_empty(Tail(structured_sn))
         ELSE kept_serials_with_empty(Tail(structured_sn))

\* The serial numbers get_facts keeps: of the records of type "Slot" with
\* a serial number that is not empty, in order.
RECURSIVE kept_serials(_)
kept_serials(structured_sn) ==
    IF Len(structured_sn) = 0 THEN <<>>
    ELSE LET sn == structured_sn[1]
             _sn == Get(sn, "serial_number")
         IN  IF Get(sn, "slot_type") = Slot /\ _sn # <<>>
             THEN <<_sn>> \o kept_serials(Tail(structured_sn))
             ELSE kept_serials(Tail(structured_sn))

\* The serial_number of get_facts.
serial_number_of(structured_sn) ==
    IF Len(structured_sn) > 0
    THEN IF Len(kept_serials(structured_sn)) > 0
         THEN join(<<",">>, kept_serials(structured_sn))
         ELSE Unknown
    ELSE Unknown

\* get_facts.  The defaults are set for uptime, vendor, serial_number,
\* os_version, hostname and fqdn; `model` is bound only when
\* "display version" yields exactly one record, and building the result with
\* it unbound raises UnboundLocalError.
get_facts(dev, structured_sys_info, prompt, structured_int_info, structured_sn) ==
    LET r == _get_structured_output(dev, "display version",
                                    structured_sys_info)
        one == Len(structured_sys_info) = 1
        uptime == IF one THEN parse_time(structured_sys_info[1].uptime)
                  ELSE -1
        vendor == IF one THEN structured_sys_info[1].vendor ELSE Comware
        os_version == IF one THEN structured_sys_info[1].os_version
                      ELSE Unknown
        model_is_bound == one
        hostname == SubSeq(prompt, 2, Len(prompt) - 1)
        interface_list ==
            [i \in DOMAIN structured_int_info |->
                Get(structured_int_info[i], "interface")]
    IN  IF r.exc # "none" THEN r
        ELSE IF ~model_is_bound
        THEN Raised("UnboundLocalError", FactsCommands)
        ELSE Returned(
                 [uptime |-> uptime,
                  vendor |-> vendor,
                  os_version |-> os_version,
                  serial_number |-> serial_number_of(structured_sn),
                  model |-> structured_sys_info[1].model,
                  hostname |-> hostname,
                  fqdn |-> Unknown,
                  interface_list |-> interface_list],
                 FactsCommands)

-----------------------------------------------------------------------------
(* get_interfaces *)

\* Length of the leading run of characters of a text that are no space.
RECURSIVE word_len(_)
word_len(text) ==
    IF Len(text) = 0 \/ text[1] = " " THEN 0
    ELSE 1 + word_len(Tail(text))

\* The words of a text, split at spaces.
RECURSIVE words(_)
words(text) ==
    IF Len(text) = 0 THEN <<>>
    ELSE IF word_len(text) = 0 THEN words(Tail(text))
    ELSE <<SubSeq(text, 1, word_len(text))>>
             \o words(SubSeq(text, word_len(text) + 1, Len(text)))

UnitWords ==
    [weeks |-> <<"w","e","e","k","s">>,
     days |-> <<"d","a","y","s">>,
     hours |-> <<"h","o","u","r","s">>,
     minutes |-> <<"m","i","n","u","t","e","s">>,
     seconds |-> <<"s","e","c","o","n","d","s">>]

IsNumber(text) ==
    /\ Len(text) > 0
    /\ \A i \in DOMAIN text : \E j \in DOMAIN Digits : Digits[j] = text[i]

\* A text is a duration parse_time reads: numbers and units in turn.
IsDuration(text) ==
    LET w == words(text)
    IN  /\ Len(w) > 0
        /\ Len(w) % 2 = 0
        /\ \A i \in DOMAIN w :
            IF i % 2 = 1 THEN IsNumber(w[i])
            ELSE \E u \in DOMAIN UnitWords : UnitWords[u] = w[i]

\* The <<number, unit>> parts of a duration text.
duration_parts(text) ==
    LET w == words(text)
    IN  [k \in 1..(Len(w) \div 2) |->
            <<w[2 * k - 1],
              CHOOSE u \in DOMAIN UnitWords : UnitWords[u] = w[2 * k]>>]

\* parse_time of a duration given as text.
parse_time_text(text) == parse_time(duration_parts(text))

\* Texts a device prints for "no value".
NullTexts == {<<>>, <<"-","-">>, <<"N","/","A">>}

\* A MAC address text napalm's mac() accepts: twelve hex digits.
IsMac(text) ==
    LET hex == SelectSeq(text, LAMBDA c : ~IsHexSeparator(c))
    IN  /\ Len(hex) = 12
        /\ \A i \in DOMAIN hex :
            UpperChar(hex[i]) \in
                {"0","1","2","3","4","5","6","7","8","9",
                 "A","B","C","D","E","F"}

\* Whether a converter accepts a text; it raises for a text it does not.
accepts(converter, text) ==
    CASE converter = "int" -> IsNumber(text)
      [] converter = "mac" -> IsMac(text)
      [] converter = "parse_time" -> IsDuration(text)

\* converter(text), for the converters the driver passes to parse_null.
convert(converter, text) ==
    CASE converter = "int" -> int(text)
      [] converter = "mac" -> mac(text)
      [] converter = "parse_time" -> parse_time_text(text)

\* parse_null: the converted text, or the default for a text that stands for
\* no value or that the converter does not accept.
parse_null(text, default, converter) ==
    IF text \in NullTexts \/ ~accepts(converter, text)
    THEN default
    ELSE convert(converter, text)

unknown == <<"u","n","k","n","o","w","n">>

AdministrativelyDOWN ==
    <<"A","d","m","i","n","i","s","t","r","a","t","i","v","e","l","y",
      " ","D","O","W","N">>

DOWN == <<"D","O","W","N">>

UP == <<"U","P">>

UPSpoofing == <<"U","P"," ","(","s","p","o","o","f","i","n","g",")">>

Never == <<"N","e","v","e","r">>

SixHours ==
    <<"6"," ","h","o","u","r","s"," ","3","9"," ","m","i","n","u","t","e","s">>

\* Records textfsm extracts from "display interface", as get_interfaces
\* reads them.
InterfaceStatusRecords ==
    [interface : {GE1_0_1, BAGG1},
     link_status : {AdministrativelyDOWN, DOWN, UP},
     protocol_status : {UPSpoofing, DOWN},
     description : {<<"u","p","l","i","n","k">>},
     bandwidth : {<<"1","0","0","0">>},
     mtu : {<<"1","5","0","0">>},
     mac_address : {MacA},
     last_flapping : {Never, <<>>, SixHours}]

\* The test of a status text with the case of the text kept.
status_is_up_cased(status) == Contains(status, <<"u","p">>)

\* bool("up" in status.lower()), for the link and the protocol status.
status_is_up(status) == Contains(Lower(status), <<"u","p">>)

\* last_flapped: 0 for "never", -1 without data, else the seconds.
last_flapped_of(last_flapped) ==
    IF Contains(Lower(last_flapped), <<"n","e","v","e","r">>)
    THEN 0
    ELSE parse_null(last_flapped, -1, "parse_time")

\* The entry get_interfaces makes of one record.
interface_entry_of(interface) ==
    [is_enabled |-> status_is_up(Get(interface, "link_status")),
     is_up |-> status_is_up(Get(interface, "protocol_status")),
     description |-> interface.description,
     speed |-> parse_null(interface.bandwidth, -1, "int"),
     mtu |-> parse_null(interface.mtu, -1, "int"),
     mac_address |-> parse_null(interface.mac_address, unknown, "mac"),
     last_flapped |-> last_flapped_of(interface.last_flapping)]

\* The for loop of get_interfaces from the i-th record on.
RECURSIVE get_interfaces_loop(_, _, _)
get_interfaces_loop(structured_int_info, i, interface_dict) ==
    IF i > Len(structured_int_info)
    THEN interface_dict
    ELSE get_interfaces_loop(structured_int_info, i + 1,
             (Get(structured_int_info[i], "interface") :>
                 interface_entry_of(structured_int_info[i]))
             @@ interface_dict)

get_interfaces(dev, records) ==
    LET r == _get_structured_output(dev, "display interface", records)
    IN  IF r.exc # "none" THEN r
        ELSE Returned(get_interfaces_loop(r.value, 1, <<>>), r.sent)

-----------------------------------------------------------------------------
(* The driver as a state machine. *)

Init ==
    /\ device = None
    /\ pc = "idle"
    /\ op = "none"
    /\ args = <<>>
    /\ sent = <<>>
    /\ exc = "none"
    /\ result = None

\* The call of operation o with arguments a ended with outcome out.
Finish(o, a, out) ==
    /\ pc' = "done"
    /\ op' = o
    /\ args' = a
    /\ sent' = out.sent
    /\ exc' = out.exc
    /\ result' = out.value

\* What textfsm extracts from the response to a command: up to n records of
\* S; without a handle no command is answered and nothing is extracted.
Extracted(S, n) == IF device = None THEN {<<>>} ELSE SeqUpTo(S, n)

\* open: _netmiko_open returns a handle, or raises ConnectionException and
\* leaves self.device as it was.
Open ==
    /\ pc = "idle"
    /\ \E connected \in BOOLEAN :
        /\ device' = IF connected THEN Conn ELSE device
        /\ Finish("open", <<>>,
                  IF connected THEN Returned(None, <<>>)
                  ELSE Raised("ConnectionException", <<>>))

\* close: _netmiko_close disconnects and sets self.device to None.
Close ==
    /\ pc = "idle"
    /\ device' = None
    /\ Finish("close", <<>>, Returned(None, <<>>))

SendCommand ==
    /\ pc = "idle"
    /\ \E command \in Commands, response \in Responses :
        Finish("send_command", [command |-> command, response |-> response],
               send_command(device, command, response))
    /\ UNCHANGED device

IsAlive ==
    /\ pc = "idle"
    /\ \E handle_alive \in BOOLEAN :
        Finish("is_alive", [handle_alive |-> handle_alive],
               is_alive(device, handle_alive))
    /\ UNCHANGED device

Cli ==
    /\ pc = "idle"
    /\ \E commands \in CliInputs :
       \E responses \in [DOMAIN commands.value -> Responses] :
        Finish("cli", [commands |-> commands, responses |-> responses],
               cli(device, commands, responses))
    /\ UNCHANGED device

GetConfig ==
    /\ pc = "idle"
    /\ \E retrieve \in Retrieves, full \in BOOLEAN, sanitized \in BOOLEAN,
          response_running \in Responses, response_saved \in Responses :
        Finish("get_config",
               [retrieve |-> retrieve, full |-> full, sanitized |-> sanitized,
                response_running |-> response_running,
                response_saved |-> response_saved],
               get_config(device, retrieve, full, sanitized,
                          response_running, response_saved))
    /\ UNCHANGED device

GetVlans ==
    /\ pc = "idle"
    /\ \E records \in Extracted(VlanRecords, MaxRecs) :
        Finish("get_vlans", [records |-> records], get_vlans(device, records))
    /\ UNCHANGED device

GetIrfConfig ==
    /\ pc = "idle"
    /\ \E records \in Extracted(IrfRecords, MaxRecs) :
        Finish("get_irf_config", [records |-> records],
               get_irf_config(device, records))
    /\ UNCHANGED device

IsIrf ==
    /\ pc = "idle"
    /\ \E records \in Extracted(IrfRecords, MaxRecs) :
        Finish("is_irf", [records |-> records], is_irf(device, records))
    /\ UNCHANGED device

GetMacAddressMoveTable ==
    /\ pc = "idle"
    /\ \E records \in Extracted(MacMoveRecords, MaxRecs) :
        Finish("get_mac_address_move_table", [records |-> records],
               get_mac_address_move_table(device, records))
    /\ UNCHANGED device

GetMacAddressTable ==
    /\ pc = "idle"
    /\ \E records \in Extracted(MacRecords, MaxRecs),
          move_records \in Extracted(MacMoveRecords, MaxRecs) :
        Finish("get_mac_address_table",
               [records |-> records, move_records |-> move_records],
               get_mac_address_table(device, records, move_records))
    /\ UNCHANGED device

GetFacts ==
    /\ pc = "idle"
    /\ \E structured_sys_info \in Extracted(SysInfoRecords, MaxRecs),
          prompt \in Prompts,
          structured_int_info \in Extracted(InterfaceRecords, MaxRecs),
          structured_sn \in Extracted(SlotRecords, MaxSlots) :
        Finish("get_facts",
               [structured_sys_info |-> structured_sys_info,
                prompt |-> prompt,
                structured_int_info |-> structured_int_info,
                structured_sn |-> structured_sn],
               get_facts(device, structured_sys_info, prompt,
                         structured_int_info, structured_sn))
    /\ UNCHANGED device

GetInterfaces ==
    /\ pc = "idle"
    /\ \E records \in Extracted(InterfaceStatusRecords, MaxRecs) :
        Finish("get_interfaces", [records |-> records],
               get_interfaces(device, records))
    /\ UNCHANGED device

\* The caller takes the outcome; the driver keeps nothing of the call but
\* self.device.
Return ==
    /\ pc = "done"
    /\ pc' = "idle"
    /\ op' = "none"
    /\ args' = <<>>
    /\ sent' = <<>>
    /\ exc' = "none"
    /\ result' = None
    /\ UNCHANGED device

Next ==
    \/ Open
    \/ Close
    \/ SendCommand
    \/ IsAlive
    \/ Cli
    \/ GetConfig
    \/ GetVlans
    \/ GetIrfConfig
    \/ IsIrf
    \/ GetMacAddressMoveTable
    \/ GetMacAddressTable
    \/ GetFacts
    \/ GetInterfaces
    \/ Return

Spec == Init /\ [][Next]_vars

-----------------------------------------------------------------------------
(* Properties. *)

Done(o) == pc = "done" /\ op = o

\* The operations that send a command on every call.
SendingOps ==
    {"send_command", "get_facts", "get_vlans", "get_irf_config", "is_irf",
     "get_mac_address_move_table", "get_mac_address_table",
     "get_interfaces"}

\* The move records with the MAC address of MAC record i.
MovesOf(records, move_records, i) ==
    {j \in DOMAIN move_records :
        mac(move_records[j].mac_address) = mac(records[i].mac_address)}

Max(S) == CHOOSE x \in S : \A y \in S : y <= x

\* C1: get_mac_address_table joins by MAC address: an entry whose MAC address
\* is that of one or more entries of the move table carries the moves and
\* the last_move of the last of them, not the -1 defaults.
C1_JoinLastWriteWins ==
    (Done("get_mac_address_table") /\ device # None) =>
        /\ exc = "none"
        /\ \A i \in DOMAIN args.records :
            LET matches == MovesOf(args.records, args.move_records, i)
            IN  matches # {} =>
                    LET last == args.move_records[Max(matches)]
                    IN  /\ result[i].moves = int(last.times)
                        /\ result[i].last_move = float(strptime(last.last_move))

\* C2: get_mac_address_table returns one entry per extracted MAC record, in
\* the order of the records, and an entry without a move record of the same
\* MAC address has moves = -1 and last_move = -1.0.
C2_NoMatchDefaults ==
    (Done("get_mac_address_table") /\ device # None) =>
        /\ exc = "none"
        /\ Len(result) = Len(args.records)
        /\ \A i \in DOMAIN args.records :
            /\ result[i].mac = mac(args.records[i].mac_address)
            /\ result[i].state = args.records[i].state
            /\ MovesOf(args.records, args.move_records, i) = {} =>
                   /\ result[i].moves = -1
                   /\ result[i].last_move = float(-1)

\* Two MAC records of different addresses were mapped, the first without a
\* move record of its address although the move table is not empty.
C2_Witness ==
    /\ Done("get_mac_address_table")
    /\ exc = "none"
    /\ Len(result) = 2
    /\ result[1].mac # result[2].mac
    /\ args.move_records # <<>>
    /\ MovesOf(args.records, args.move_records, 1) = {}
    /\ result[1].moves = -1

\* The place of the last occurrence of command c in a command list.
LastIndex(commands, c) ==
    Max({i \in DOMAIN commands : commands[i] = c})

\* C3: cli given a value that is no list raises the invalid-argument error
\* and sends nothing; given a list it sends each command in order and
\* returns a mapping whose keys are exactly the commands of the list, each
\* with the response to (the last send of) that command.
C3_CliContract ==
    Done("cli") =>
        /\ args.commands.type # "list" =>
               exc = InvalidArgumentError /\ sent = <<>>
        /\ (args.commands.type = "list" /\ device # None) => exc = "none"
        /\ (args.commands.type = "list" /\ exc = "none") =>
               /\ sent = args.commands.value
               /\ DOMAIN result = Range(args.commands.value)
               /\ \A c \in DOMAIN result :
                      result[c] =
                          args.responses[LastIndex(args.commands.value, c)]

\* cli returned the responses of two different commands.
C3_Witness ==
    /\ Done("cli")
    /\ exc = "none"
    /\ Len(sent) = 2
    /\ Cardinality(DOMAIN result) = 2
    /\ result[sent[1]] # result[sent[2]]

\* C4: a command sent while there is no live channel (before the first
\* open, after a close) fails with ConnectionClosedException and returns
\* nothing, and is_alive reports False there.
C4_NotLiveRaisesConnectionClosed ==
    /\ (pc = "done" /\ op \in SendingOps /\ device = None) =>
           exc = "ConnectionClosedException"
    /\ (Done("is_alive") /\ device = None) =>
           exc = "none" /\ result.is_alive = FALSE

FactsFields ==
    {"uptime", "vendor", "os_version", "serial_number", "model", "hostname",
     "fqdn", "interface_list"}

\* C5: get_facts returns a complete record whatever textfsm extracts for
\* its three commands, zero or several records of "display version"
\* included: every field is there, with a value or its default.
C5_FactsAlwaysComplete ==
    (Done("get_facts") /\ device # None) =>
        /\ exc = "none"
        /\ DOMAIN result = FactsFields
        /\ Len(args.structured_sys_info) # 1 =>
               /\ result.uptime = -1
               /\ result.os_version = Unknown
               /\ result.model = Unknown

\* C6: is_irf is True exactly when get_irf_config returns a mapping that is
\* not empty, which is exactly when textfsm extracts at least one IRF port
\* record.
C6_IsIrfAgrees ==
    /\ (Done("is_irf") /\ exc = "none") =>
           /\ result.is_irf = (Len(args.records) > 0)
           /\ result.is_irf =
                  (DOMAIN get_irf_config(device, args.records).value # {})
    /\ (Done("get_irf_config") /\ exc = "none") =>
           (DOMAIN result # {}) = (Len(args.records) > 0)

\* is_irf answered True for a single record whose port has no member.
C6_Witness ==
    /\ Done("is_irf")
    /\ exc = "none"
    /\ result.is_irf
    /\ Len(args.records) = 1
    /\ args.records[1].port_member = <<>>

\* Record i is the last of the records with its VLAN ID: the one whose entry
\* is left under that ID.
LastOfId(records, i) ==
    \A j \in DOMAIN records :
        j > i => int(records[j].vlan_id) # int(records[i].vlan_id)

\* The name get_vlans returned for record i.
NameFor(records, i) == result[int(records[i].vlan_id)].name

\* C7 as stated: a VLAN named "VLAN0002" gets its description for a name
\* when the description is user-configured ("Uplink"), and keeps the name
\* "VLAN0002" when the description is the default "VLAN 0002".
C7_DefaultNameAsStated ==
    (Done("get_vlans") /\ exc = "none") =>
        \A i \in DOMAIN args.records :
            LET r == args.records[i]
            IN  (LastOfId(args.records, i) /\ r.name = VLAN0002) =>
                    /\ r.description = Uplink =>
                           NameFor(args.records, i) = Uplink
                    /\ r.description = VLAN_0002 =>
                           NameFor(args.records, i) = VLAN0002

\* C7 amended: the default name is of the form "VLAN 0002", as the default
\* description is.  A VLAN so named gets a user-configured description
\* ("Uplink") for a name and keeps the name when the description is the
\* default too; a VLAN named "VLAN0002" keeps that name whatever its
\* description.
C7_DefaultName ==
    (Done("get_vlans") /\ exc = "none") =>
        \A i \in DOMAIN args.records :
            LET r == args.records[i]
            IN  LastOfId(args.records, i) =>
                    /\ (r.name = VLAN_0002 /\ r.description = Uplink) =>
                           NameFor(args.records, i) = Uplink
                    /\ (r.name = VLAN_0002 /\ r.description = VLAN_0002) =>
                           NameFor(args.records, i) = VLAN_0002
                    /\ r.name = VLAN0002 =>
                           NameFor(args.records, i) = VLAN0002

\* A VLAN named "VLAN 0002" and described "Uplink" was named "Uplink", and
\* one named "VLAN0002" and described "Uplink" kept its name.
C7_Witness ==
    /\ Done("get_vlans")
    /\ exc = "none"
    /\ Len(args.records) = 2
    /\ args.records[1].name = VLAN_0002
    /\ args.records[1].description = Uplink
    /\ args.records[2].name = VLAN0002
    /\ args.records[2].description = Uplink
    /\ int(args.records[1].vlan_id) # int(args.records[2].vlan_id)
    /\ NameFor(args.records, 1) = Uplink
    /\ NameFor(args.records, 2) = VLAN0002

\* C8: get_vlans names a VLAN by its description when the description does
\* not contain "VLAN " and the name does, by its name in every other case;
\* the result is keyed by the VLAN IDs as integers.
C8_NamingRule ==
    (Done("get_vlans") /\ device # None) =>
        /\ exc = "none"
        /\ DOMAIN result \subseteq Int
        /\ DOMAIN result =
               {int(args.records[i].vlan_id) : i \in DOMAIN args.records}
        /\ \A i \in DOMAIN args.records :
            LET r == args.records[i]
                by_description ==
                    /\ ~Contains(r.description, VLAN_)
                    /\ Contains(r.name, VLAN_)
            IN  LastOfId(args.records, i) =>
                    /\ by_description =>
                           NameFor(args.records, i) = r.description
                    /\ ~by_description => NameFor(args.records, i) = r.name

\* Two records with the IDs "02" and "2" were mapped to the one key 2, which
\* holds the name of the second, its description.
C8_Witness ==
    /\ Done("get_vlans")
    /\ exc = "none"
    /\ Len(args.records) = 2
    /\ args.records[1].vlan_id = <<"0","2">>
    /\ args.records[2].vlan_id = <<"2">>
    /\ args.records[1].name = Uplink
    /\ args.records[2].name = VLAN_0002
    /\ args.records[2].description = Uplink
    /\ DOMAIN result = {2}
    /\ result[2].name = Uplink

\* C9: get_config sends the running-configuration command alone for
\* "running", the saved-configuration command alone for "startup", and both,
\* running first, for "all"; each response is under its own key and every
\* other key is ""; `full` and `sanitized` change nothing.
C9_ConfigByRetrieve ==
    Done("get_config") =>
        /\ (device # None) => exc = "none"
        /\ (exc = "none" /\ args.retrieve = running) =>
               /\ sent = <<CmdRunning>>
               /\ result = [running |-> args.response_running,
                            startup |-> "", candidate |-> ""]
        /\ (exc = "none" /\ args.retrieve = startup) =>
               /\ sent = <<CmdSaved>>
               /\ result = [running |-> "",
                            startup |-> args.response_saved,
                            candidate |-> ""]
        /\ (exc = "none" /\ args.retrieve = all) =>
               /\ sent = <<CmdRunning, CmdSaved>>
               /\ result = [running |-> args.response_running,
                            startup |-> args.response_saved,
                            candidate |-> ""]

\* get_config("all") with both flags set returned both configurations.
C9_Witness ==
    /\ Done("get_config")
    /\ exc = "none"
    /\ args.retrieve = all
    /\ args.full
    /\ args.sanitized
    /\ Len(sent) = 2
    /\ result.running # result.startup

\* The slot records that count for the serial number.
Qualifying(structured_sn) ==
    SelectSeq(structured_sn,
              LAMBDA r : r.slot_type = Slot /\ r.serial_number # <<>>)

\* The serial numbers of slot records, in order, with a comma between two.
RECURSIVE CommaJoined(_)
CommaJoined(recs) ==
    IF Len(recs) = 1 THEN recs[1].serial_number
    ELSE CommaJoined(SubSeq(recs, 1, Len(recs) - 1))
             \o <<",">> \o recs[Len(recs)].serial_number

\* C10: the serial_number of get_facts is the serial numbers, joined by
\* commas in record order, of the slot records of type "Slot" with a serial
\* number that is not empty, and "Unknown" when there is none.
C10_SerialAggregation ==
    (Done("get_facts") /\ exc = "none") =>
        LET q == Qualifying(args.structured_sn)
        IN  /\ q = <<>> => result.serial_number = Unknown
            /\ q # <<>> => result.serial_number = CommaJoined(q)

\* get_facts joined the serial numbers of the first and third of three
\* records, the second being a "Slot" without a serial number.
C10_Witness ==
    /\ Done("get_facts")
    /\ exc = "none"
    /\ Len(args.structured_sn) = 3
    /\ args.structured_sn[1] = [slot_type |-> Slot,
                                serial_number |-> <<"A","1">>]
    /\ args.structured_sn[2] = [slot_type |-> Slot, serial_number |-> <<>>]
    /\ args.structured_sn[3] = [slot_type |-> Slot,
                                serial_number |-> <<"B","2">>]
    /\ result.serial_number = <<"A","1",",","B","2">>

\* Record i is the last of the records with its interface name: the one
\* whose entry is left under that name.
LastOfName(records, i) ==
    \A j \in DOMAIN records :
        j > i => records[j].interface # records[i].interface

\* A text has a "u" or "U" followed at once by a "p" or "P".
HasUp(text) ==
    \E k \in 1..(Len(text) - 1) :
        text[k] \in {"u", "U"} /\ text[k + 1] \in {"p", "P"}

\* C11: for every interface record get_interfaces maps, is_enabled is true
\* exactly when the link status contains "up" in any case and is_up exactly
\* when the protocol status does: "Administratively DOWN" and "DOWN" give
\* is_enabled false, "UP" gives true, and "UP (spoofing)" gives is_up true.
C11_UpDown ==
    (Done("get_interfaces") /\ device # None) =>
        /\ exc = "none"
        /\ DOMAIN result =
               {args.records[i].interface : i \in DOMAIN args.records}
        /\ \A i \in DOMAIN args.records :
            LET r == args.records[i]
                entry == result[r.interface]
            IN  LastOfName(args.records, i) =>
                    /\ entry.is_enabled = HasUp(r.link_status)
                    /\ entry.is_up = HasUp(r.protocol_status)
                    /\ r.link_status \in {AdministrativelyDOWN, DOWN} =>
                           ~entry.is_enabled
                    /\ r.link_status = UP => entry.is_enabled
                    /\ r.protocol_status = UPSpoofing => entry.is_up

\* Two interfaces were mapped: one administratively down, not enabled and
\* not up; one with link "UP" and protocol "UP (spoofing)", enabled and up.
C11_Witness ==
    /\ Done("get_interfaces")
    /\ exc = "none"
    /\ Len(args.records) = 2
    /\ args.records[1].interface # args.records[2].interface
    /\ args.records[1].link_status = AdministrativelyDOWN
    /\ args.records[1].protocol_status = DOWN
    /\ args.records[2].link_status = UP
    /\ args.records[2].protocol_status = UPSpoofing
    /\ ~result[args.records[1].interface].is_enabled
    /\ ~result[args.records[1].interface].is_up
    /\ result[args.records[2].interface].is_enabled
    /\ result[args.records[2].interface].is_up

====
